---- MODULE Spec2Model ----
(***************************************************************************)
(* peer_checker.py: the concurrent probe engine (resolve, isup, main) and  *)
(* the report (print_results).                                             *)
(*                                                                         *)
(* Time is counted in ticks of one second.  Strings that the code slices   *)
(* (host names) are sequences of one-character strings.  An optional value *)
(* (None or a value) is a sequence of length 0 or 1.                       *)
(***************************************************************************)
EXTENDS Integers, Sequences, FiniteSets, TLC

\* ---- bounds of the model ------------------------------------------------
MaxPeers == 2

\* ---- program constants --------------------------------------------------
\* asyncio.wait_for(..., 5)
Timeout == 5

\* ---- values -------------------------------------------------------------
NoneVal == <<>>

Some(x) == <<x>>

HostBracketed == <<"[", ":", ":", "1", "]">>

HostEmptyBrackets == <<"[", "]">>

HostName == <<"a", ".", "b">>

AddrA == <<"1", ".", "2">>

AddrB == <<"3", ".", "4">>

\* what PEER_REGEX.findall yields, with the provenance get_peers adds
Descriptors ==
    { [uri |-> <<"tcp", HostBracketed, "1">>, region |-> "eu", country |-> "de.md"],
      [uri |-> <<"tls", HostName, "2">>, region |-> "eu", country |-> "fr.md"],
      [uri |-> <<"tcp", HostEmptyBrackets, "3">>, region |-> "as", country |-> "jp.md"] }

\* the address lists getaddrinfo may return (first entry is taken)
AddrInfos == { <<AddrA>>, <<AddrA, AddrB>> }

\* a lookup that has lasted longer than the timeout is counted no further
StallCap == Timeout + 1

\* what the wall clock was set back by, in seconds, while a connection was awaited
WallSkews == { 0, 1 }

ResolveErrors == { "gaierror" }

ConnectErrors == { "ConnectionRefusedError", "OSError", "ConnectionResetError" }

CloseErrors == { "BrokenPipeError" }

RECURSIVE SeqsUpTo(_, _)
SeqsUpTo(S, n) ==
    IF n = 0 THEN { <<>> }
    ELSE LET shorter == SeqsUpTo(S, n - 1)
         IN  shorter \cup { Append(s, x) : s \in { t \in shorter : Len(t) = n - 1 }, x \in S }

VARIABLES
    dataDir,    \* DATA_DIR on disk: whether it exists, holds .git, holds README.md
    updRepo,    \* UPD_REPO
    argRegions, \* regions, from the command line or the configuration
    argCountries, \* countries, from the command line or the configuration
    syncResult, \* how the git command of __main__ ended (none: not run)
    peers,      \* the list given to main: one dict per descriptor
    mainpc,     \* position of __main__ / main: sync, scan, aborted, exited, gather,
                \* returned, raised, printed, crashed
    pc,         \* position of each isup task: pending, resolving, connecting, closing, done
    up,         \* peer["up"]
    latency,    \* peer["latency"] (optional)
    rwait,      \* ticks the task has been awaiting getaddrinfo
    timer,      \* ticks left on wait_for's timeout handle
    elapsed,    \* ticks since open_connection was started
    lookups,    \* getaddrinfo calls made for each task
    attempts,   \* open_connection calls made for each task: <<addr, port>>
    conn,       \* transport of each task: none, inflight, open, closed, failed, aborted
    caught,     \* type of the exception logged by the task, or "None"
    raised,     \* whether an exception left isup
    results,    \* what main returned
    alive,      \* rows printed in the alive table
    dead        \* rows printed in the dead table (optional: SHOW_DEAD)

\* what __main__ reads before it calls main
env == << dataDir, updRepo, argRegions, argCountries, syncResult >>

vars == << env, peers, mainpc, pc, up, latency, rwait, timer, elapsed, lookups,
           attempts, conn, caught, raised, results, alive, dead >>

N == Len(peers)

Tasks == 1..N

\* ---- resolve (lines 41-54) ----------------------------------------------
\* variant: every name is taken for a literal
StartsWithAnything(name) == Len(name) > 0

\* name.startswith("[")
StartsWithBracket(name) == Len(name) > 0 /\ name[1] = "["

\* variant: name[1:]
StripFirstOnly(name) == Tail(name)

\* name[1:-1]
StripEnds(name) == SubSeq(name, 2, Len(name) - 1)

\* info[0][4][0]
FirstAddr(info) == info[1]

\* "addr = None" in the except branch of resolve(name)
\* variant: the except branch falls back to the name itself
AddrOnResolveErrorName(name) == Some(name)

AddrOnResolveError(name) == NoneVal

\* "if addr:" -- None and the empty string are both false
Truthy(a) == a # NoneVal /\ a[1] # <<>>

\* ---- exception handling -------------------------------------------------
ExceptionTypes == ResolveErrors \cup ConnectErrors \cup CloseErrors \cup { "TimeoutError" }

\* variant: "except OSError", which asyncio's TimeoutError is not
CaughtOSErrorOnly(e) == e # "TimeoutError"

\* "except Exception as e": every error type above derives from Exception
Caught(e) == e \in ExceptionTypes

\* variant: the timeout counts from the start of the lookup
WaitFromLookupStart(i) == IF rwait[i] < Timeout THEN Timeout - rwait[i] ELSE 0

\* variant: a timeout of 50 seconds
WaitForTimeoutTenfold(i) == Timeout * 10

\* the timeout given to wait_for, counted from the moment it is called
WaitForTimeout(i) == Timeout

\* ---- isup (lines 56-74) -------------------------------------------------
\* variant: "for p in peers: await isup(p)"
StartAfterPreviousDone(i) == \A j \in 1..(i - 1) : pc[j] = "done"

\* gather schedules the tasks in list order and the loop runs their first steps
\* in that order: task i starts once the tasks before it have run their first step
StartReady(i) == \A j \in 1..(i - 1) : pc[j] # "pending"

\* completions of awaited I/O are delivered by later iterations of the loop,
\* after the first step of every task
AllStarted == \A j \in Tasks : pc[j] # "pending"

\* variant: equal descriptors share one dict
DictOfFirstEqual(i) == CHOOSE k \in 1..i : peers[k] = peers[i] /\ \A m \in 1..(k - 1) : peers[m] # peers[i]

\* the dict task i was given: get_peers appends a new dict for every match, so
\* no two tasks hold the same dict
DictOf(i) == i

\* the task returns (or raises): it is complete and gather is told
Complete(i) == pc' = [pc EXCEPT ![i] = "done"]

\* an exception e reaches the handlers of the task
Handle(i, e) ==
    IF Caught(e)
    THEN /\ caught' = [caught EXCEPT ![i] = e]
         /\ UNCHANGED raised
    ELSE /\ raised' = [raised EXCEPT ![i] = TRUE]
         /\ UNCHANGED caught

\* lines 61-66 with addr = a: start the clock and the connection, or return
AfterResolve(i, a) ==
    IF Truthy(a)
    THEN /\ pc' = [pc EXCEPT ![i] = "connecting"]
         /\ timer' = [timer EXCEPT ![i] = WaitForTimeout(i)]
         /\ elapsed' = [elapsed EXCEPT ![i] = 0]
         /\ attempts' = [attempts EXCEPT ![i] = Append(@, <<a[1], peers[i].uri[3]>>)]
         /\ conn' = [conn EXCEPT ![i] = "inflight"]
    ELSE /\ Complete(i)
         /\ UNCHANGED << timer, elapsed, attempts, conn >>

\* the task's first run: lines 58-60, and on when resolve does not suspend
Start(i) ==
    /\ mainpc = "gather"
    /\ pc[i] = "pending"
    /\ StartReady(i)
    /\ up' = [up EXCEPT ![DictOf(i)] = FALSE]
    /\ latency' = [latency EXCEPT ![DictOf(i)] = NoneVal]
    /\ LET name == peers[i].uri[2]
       IN  IF StartsWithBracket(name)
           THEN /\ AfterResolve(i, Some(StripEnds(name)))
                /\ UNCHANGED << lookups, rwait >>
           ELSE /\ pc' = [pc EXCEPT ![i] = "resolving"]
                /\ lookups' = [lookups EXCEPT ![i] = @ + 1]
                /\ rwait' = [rwait EXCEPT ![i] = 0]
                /\ UNCHANGED << timer, elapsed, attempts, conn >>
    /\ UNCHANGED << env, peers, mainpc, caught, raised, results, alive, dead >>

\* getaddrinfo completes with an address list
ResolveOk(i, info) ==
    /\ AllStarted
    /\ pc[i] = "resolving"
    /\ AfterResolve(i, Some(FirstAddr(info)))
    /\ rwait' = [rwait EXCEPT ![i] = 0]
    /\ UNCHANGED << env, peers, mainpc, up, latency, lookups, caught,
                    raised, results, alive, dead >>

\* getaddrinfo raises e: logged, addr = None
ResolveFail(i, e) ==
    /\ AllStarted
    /\ pc[i] = "resolving"
    /\ Handle(i, e)
    /\ IF Caught(e)
       THEN AfterResolve(i, AddrOnResolveError(peers[i].uri[2]))
       ELSE /\ Complete(i)
            /\ UNCHANGED << timer, elapsed, attempts, conn >>
    /\ rwait' = [rwait EXCEPT ![i] = 0]
    /\ UNCHANGED << env, peers, mainpc, up, latency, lookups,
                    results, alive, dead >>

\* the connection is established before the timeout: lines 67-69; the wall
\* clock was set back by skew seconds since start_time was read
ConnectOk(i, skew) ==
    /\ AllStarted
    /\ pc[i] = "connecting"
    /\ timer[i] > 0
    /\ latency' = [latency EXCEPT ![DictOf(i)] = Some(elapsed[i] - skew)]
    /\ conn' = [conn EXCEPT ![i] = "open"]
    /\ pc' = [pc EXCEPT ![i] = "closing"]
    /\ timer' = [timer EXCEPT ![i] = 0]
    /\ elapsed' = [elapsed EXCEPT ![i] = 0]
    /\ UNCHANGED << env, peers, mainpc, up, rwait, lookups, attempts,
                    caught, raised, results, alive, dead >>

\* open_connection raises e before the timeout
ConnectFail(i, e) ==
    /\ AllStarted
    /\ pc[i] = "connecting"
    /\ timer[i] > 0
    /\ conn' = [conn EXCEPT ![i] = "failed"]
    /\ Handle(i, e)
    /\ Complete(i)
    /\ timer' = [timer EXCEPT ![i] = 0]
    /\ elapsed' = [elapsed EXCEPT ![i] = 0]
    /\ UNCHANGED << env, peers, mainpc, up, latency, rwait, lookups,
                    attempts, results, alive, dead >>

\* the timeout handle fires: wait_for cancels open_connection, raises TimeoutError
TimeoutExpire(i) ==
    /\ AllStarted
    /\ pc[i] = "connecting"
    /\ timer[i] = 0
    /\ conn' = [conn EXCEPT ![i] = "aborted"]
    /\ Handle(i, "TimeoutError")
    /\ Complete(i)
    /\ elapsed' = [elapsed EXCEPT ![i] = 0]
    /\ UNCHANGED << env, peers, mainpc, up, latency, rwait, timer,
                    lookups, attempts, results, alive, dead >>

\* wait_closed returns: line 70
CloseOk(i) ==
    /\ AllStarted
    /\ pc[i] = "closing"
    /\ conn' = [conn EXCEPT ![i] = "closed"]
    /\ up' = [up EXCEPT ![DictOf(i)] = TRUE]
    /\ Complete(i)
    /\ UNCHANGED << env, peers, mainpc, latency, rwait, timer, elapsed,
                    lookups, attempts, caught, raised, results,
                    alive, dead >>

\* writer.close() / wait_closed raises e: line 70 is skipped
CloseFail(i, e) ==
    /\ AllStarted
    /\ pc[i] = "closing"
    /\ conn' = [conn EXCEPT ![i] = "closed"]
    /\ Handle(i, e)
    /\ Complete(i)
    /\ UNCHANGED << env, peers, mainpc, up, latency, rwait, timer, elapsed,
                    lookups, attempts, results, alive, dead >>

\* ---- the clock ----------------------------------------------------------
\* one second passes; it cannot pass a timeout handle that is due
Tick ==
    /\ mainpc = "gather"
    /\ AllStarted
    /\ \E i \in Tasks : \/ pc[i] = "connecting"
                        \/ pc[i] = "resolving" /\ rwait[i] < StallCap
    /\ \A i \in Tasks : pc[i] = "connecting" => timer[i] > 0
    /\ rwait' = [i \in Tasks |->
                   IF pc[i] = "resolving" /\ rwait[i] < StallCap THEN rwait[i] + 1 ELSE rwait[i]]
    /\ timer' = [i \in Tasks |-> IF pc[i] = "connecting" THEN timer[i] - 1 ELSE timer[i]]
    /\ elapsed' = [i \in Tasks |-> IF pc[i] = "connecting" THEN elapsed[i] + 1 ELSE elapsed[i]]
    /\ UNCHANGED << env, peers, mainpc, pc, up, latency, lookups, attempts,
                    conn, caught, raised, results, alive, dead >>

\* ---- main (lines 113-116) -----------------------------------------------
\* the dict of descriptor i as it stands: isup returns the dict it was given
PeerDict(i) ==
    [ uri |-> peers[i].uri, region |-> peers[i].region, country |-> peers[i].country,
      up |-> up[DictOf(i)], latency |-> latency[DictOf(i)], id |-> DictOf(i) ]

\* variant: only the reachable peers are returned
GatherOnlyReachable ==
    LET all == [ i \in Tasks |-> PeerDict(i) ]
    IN  SelectSeq(all, LAMBDA p : p.up)

\* asyncio.gather: the tasks' return values, in the order of the awaitables
GatherResults == [ i \in Tasks |-> PeerDict(i) ]

\* variant: main returns as soon as one task has completed
MainReturnFirstCompleted ==
    /\ mainpc = "gather"
    /\ \E i \in Tasks : pc[i] = "done"
    /\ mainpc' = "returned"
    /\ results' = GatherResults
    /\ UNCHANGED << env, peers, pc, up, latency, rwait, timer, elapsed, lookups,
                    attempts, conn, caught, raised, alive, dead >>

\* gather completes when every task has, or as soon as one raises
MainReturn ==
    /\ mainpc = "gather"
    /\ \/ \A i \in Tasks : pc[i] = "done"
       \/ \E i \in Tasks : raised[i]
    /\ IF \E i \in Tasks : raised[i]
       THEN /\ mainpc' = "raised"
            /\ UNCHANGED results
       ELSE /\ mainpc' = "returned"
            /\ results' = GatherResults
    /\ UNCHANGED << env, peers, pc, up, latency, rwait, timer, elapsed,
                    lookups, attempts, conn, caught, raised, alive, dead >>

\* ---- print_results (lines 76-111) ---------------------------------------
\* "{}://{}:{}".format(*p["uri"])
FormatUri(uri) == <<uri[1], ":", "/", "/">> \o uri[2] \o <<":", uri[3]>>

\* "{}/{}".format(p["region"], p["country"])
FormatPlace(p) == <<p.region, "/", p.country>>

\* round(latency.total_seconds() * 1000, 3): milliseconds; a whole number of
\* seconds is a whole number of milliseconds, which rounding leaves alone
LatencyMs(l) == l * 1000

\* one row of prepare_table; src is the dict the row was made from
TableRow(p) ==
    [ addr |-> FormatUri(p.uri),
      latency |-> IF p.latency # NoneVal THEN Some(LatencyMs(p.latency[1])) ELSE NoneVal,
      place |-> FormatPlace(p),
      src |-> p.id ]

PrepareTable(ps) == [ k \in 1..Len(ps) |-> TableRow(ps[k]) ]

\* variant: the filter is inverted
IsNotUp(p) == ~p.up

IsUp(p) == p.up

\* variant: a peer counts as dead when it has no latency
IsDownNoLatency(p) == ~p.up /\ p.latency = NoneVal

IsDown(p) == ~p.up

\* x[1] < y[1] on two rows
KeyLess(x, y) == x.latency[1] < y.latency[1]

\* variant: a row goes before the rows of equal key
RECURSIVE InsertBeforeEqual(_, _)
InsertBeforeEqual(row, s) ==
    IF s = <<>> THEN <<row>>
    ELSE IF ~KeyLess(Head(s), row) THEN <<row>> \o s
    ELSE <<Head(s)>> \o InsertBeforeEqual(row, Tail(s))

\* sorted() is stable: a row goes after every row whose key is not greater
RECURSIVE InsertByKey(_, _)
InsertByKey(row, s) ==
    IF s = <<>> THEN <<row>>
    ELSE IF KeyLess(row, Head(s)) THEN <<row>> \o s
    ELSE <<Head(s)>> \o InsertByKey(row, Tail(s))

RECURSIVE SortedByLatency(_)
SortedByLatency(t) ==
    IF t = <<>> THEN <<>>
    ELSE InsertByKey(t[Len(t)], SortedByLatency(SubSeq(t, 1, Len(t) - 1)))

\* comparing None with a number raises TypeError
SortRaises(t) == Len(t) > 1 /\ \E k \in 1..Len(t) : t[k].latency = NoneVal

\* show_dead is SHOW_DEAD, which only print_results reads
PrintResults(show_dead) ==
    /\ mainpc = "returned"
    /\ LET table == PrepareTable(SelectSeq(results, IsUp))
       IN  IF SortRaises(table)
           THEN /\ mainpc' = "crashed"
                /\ UNCHANGED << alive, dead >>
           ELSE /\ mainpc' = "printed"
                /\ alive' = SortedByLatency(table)
                /\ dead' = IF show_dead THEN Some(PrepareTable(SelectSeq(results, IsDown)))
                                        ELSE NoneVal
    /\ UNCHANGED << env, peers, pc, up, latency, rwait, timer, elapsed,
                    lookups, attempts, conn, caught, raised, results >>

\* ---- the program ---------------------------------------------------------
\* main(peers) has called gather: one task per dict, none has run yet.  A dict
\* has no "up" / "latency" key before its task starts; nothing reads them until
\* the task has set them (lines 58-59), and they are shown here as False / None.
Init ==
    /\ dataDir = [ exists |-> TRUE, git |-> FALSE, readme |-> TRUE ]
    /\ updRepo = FALSE
    /\ argRegions = <<>>
    /\ argCountries = <<>>
    /\ syncResult = "none"
    /\ peers \in SeqsUpTo(Descriptors, MaxPeers)
    /\ mainpc = "gather"
    /\ pc = [ i \in Tasks |-> "pending" ]
    /\ up = [ i \in Tasks |-> FALSE ]
    /\ latency = [ i \in Tasks |-> NoneVal ]
    /\ rwait = [ i \in Tasks |-> 0 ]
    /\ timer = [ i \in Tasks |-> 0 ]
    /\ elapsed = [ i \in Tasks |-> 0 ]
    /\ lookups = [ i \in Tasks |-> 0 ]
    /\ attempts = [ i \in Tasks |-> <<>> ]
    /\ conn = [ i \in Tasks |-> "none" ]
    /\ caught = [ i \in Tasks |-> "None" ]
    /\ raised = [ i \in Tasks |-> FALSE ]
    /\ results = <<>>
    /\ alive = <<>>
    /\ dead = NoneVal

Next ==
    \/ \E i \in Tasks : Start(i)
    \/ \E i \in Tasks : \E info \in AddrInfos : ResolveOk(i, info)
    \/ \E i \in Tasks : \E e \in ResolveErrors : ResolveFail(i, e)
    \/ \E i \in Tasks : \E skew \in WallSkews : ConnectOk(i, skew)
    \/ \E i \in Tasks : \E e \in ConnectErrors : ConnectFail(i, e)
    \/ \E i \in Tasks : TimeoutExpire(i)
    \/ \E i \in Tasks : CloseOk(i)
    \/ \E i \in Tasks : \E e \in CloseErrors : CloseFail(i, e)
    \/ Tick
    \/ MainReturn
    \/ \E show_dead \in BOOLEAN : PrintResults(show_dead)

Spec == Init /\ [][Next]_vars

\* ---- helpers of the properties ------------------------------------------
Host(i) == peers[i].uri[2]

Port(i) == peers[i].uri[3]

\* the characters strictly between the first and the last one
Interior(name) == [ k \in 1..(Len(name) - 2) |-> name[k + 1] ]

IsBracketedLiteral(name) == Len(name) >= 2 /\ name[1] = "[" /\ name[Len(name)] = "]"

FailureTypes == ResolveErrors \cup ConnectErrors \cup { "TimeoutError" }

HasReturned == mainpc \in { "returned", "printed", "crashed" }

\* any step of task j
TaskStep(j) ==
    \/ Start(j)
    \/ \E info \in AddrInfos : ResolveOk(j, info)
    \/ \E e \in ResolveErrors : ResolveFail(j, e)
    \/ \E skew \in WallSkews : ConnectOk(j, skew)
    \/ \E e \in ConnectErrors : ConnectFail(j, e)
    \/ TimeoutExpire(j)
    \/ CloseOk(j)
    \/ \E e \in CloseErrors : CloseFail(j, e)

\* ---- C1 -------------------------------------------------------------------
\* C1: main never raises, and what it returns holds exactly one result for each
\* input descriptor (as many results as descriptors, the dict of every
\* descriptor exactly once), whatever the outcomes of the probes were.
C1_OneResultPerDescriptor ==
    /\ mainpc # "raised"
    /\ HasReturned =>
         /\ Len(results) = Len(peers)
         /\ \A i \in Tasks :
              Cardinality({ k \in 1..Len(results) :
                              results[k].id = i /\ results[k].uri = peers[i].uri }) = 1

C1_Witness ==
    /\ mainpc = "returned"
    /\ Len(peers) >= 2
    /\ \E i, j \in Tasks : results[i].up /\ ~results[j].up /\ caught[j] \in FailureTypes

\* ---- C2 -------------------------------------------------------------------
\* C2: a probe that has returned is either reachable with a latency, or not
\* reachable without one.
C2_FieldsConsistent ==
    \A i \in Tasks :
        pc[i] = "done" =>
            \/ up[i] /\ latency[i] # NoneVal
            \/ ~up[i] /\ latency[i] = NoneVal

\* ---- C3 -------------------------------------------------------------------
\* C3: a probe whose connection was established and whose close then failed
\* has returned normally with reachable = true.
C3_CloseFailureIgnored ==
    \A i \in Tasks :
        (pc[i] = "done" /\ conn[i] = "closed" /\ caught[i] \in CloseErrors) =>
            up[i] /\ ~raised[i]

\* ---- C4 -------------------------------------------------------------------
\* C4: no exception leaves a probe, so main never raises; a probe that failed
\* (lookup error, connection error, timeout) is recorded as not reachable; every
\* sibling that has not finished can still take its own next step; and once
\* every probe has finished main returns one result per descriptor.
C4_FailureIsolated ==
    /\ mainpc # "raised"
    /\ \A i \in Tasks : ~raised[i]
    /\ \A i \in Tasks : (pc[i] = "done" /\ caught[i] \in FailureTypes) => ~up[i]
    /\ \A i, j \in Tasks :
          (mainpc = "gather" /\ caught[i] \in FailureTypes /\ pc[j] # "done")
              => ENABLED TaskStep(j)
    /\ (mainpc = "gather" /\ \A i \in Tasks : pc[i] = "done") => ENABLED MainReturn
    /\ HasReturned => Len(results) = Len(peers)

C4_Witness ==
    /\ mainpc = "returned"
    /\ \E i, k \in Tasks :
          /\ caught[i] = "TimeoutError" /\ conn[i] = "aborted" /\ ~results[i].up
          /\ results[k].up /\ results[k].latency # NoneVal

\* ---- C5 -------------------------------------------------------------------
\* C5: a connection attempt is never awaited for more than Timeout seconds from
\* its own start and is never established at or after that point; the timeout
\* fires exactly Timeout seconds after the attempt started, aborts that attempt,
\* ends the probe as not reachable, and changes nothing of any other probe.
C5_TimeoutFromAttemptStart ==
    /\ [](\A i \in Tasks : pc[i] = "connecting" => elapsed[i] <= Timeout)
    /\ [][\A i \in Tasks :
            /\ (pc[i] = "connecting" /\ pc'[i] = "closing") => elapsed[i] < Timeout
            /\ (pc[i] = "connecting" /\ pc'[i] = "done" /\ caught'[i] = "TimeoutError") =>
                  /\ elapsed[i] = Timeout
                  /\ conn'[i] = "aborted"
                  /\ ~up'[i] /\ latency'[i] = NoneVal /\ ~raised'[i]
                  /\ \A j \in Tasks \ {i} :
                        /\ pc'[j] = pc[j] /\ conn'[j] = conn[j]
                        /\ timer'[j] = timer[j] /\ elapsed'[j] = elapsed[j]
                        /\ up'[j] = up[j] /\ latency'[j] = latency[j]]_vars

C5_Witness ==
    \E i, j \in Tasks :
        /\ pc[i] = "done" /\ caught[i] = "TimeoutError" /\ conn[i] = "aborted" /\ ~up[i]
        /\ pc[j] = "connecting" /\ conn[j] = "inflight" /\ elapsed[j] > 0

\* ---- C6 -------------------------------------------------------------------
\* C6 as stated: a probe is never still in its name lookup more than Timeout
\* seconds after the lookup began.
C6_LookupBoundedByTimeout ==
    \A i \in Tasks : pc[i] = "resolving" => rwait[i] <= Timeout

\* C6 as amended: the timeout bounds the connection attempt only.  A connecting
\* probe has a timeout handle that is due Timeout seconds after the attempt
\* started; a probe in its name lookup has no timeout handle, however long the
\* lookup has lasted, and no connection.
C6_TimeoutBoundsConnectOnly ==
    \A i \in Tasks :
        /\ pc[i] = "connecting" => elapsed[i] <= Timeout /\ timer[i] = Timeout - elapsed[i]
        /\ pc[i] = "resolving" => timer[i] = 0 /\ conn[i] = "none" /\ ~ENABLED TimeoutExpire(i)

C6_Witness ==
    \E i, j \in Tasks :
        /\ pc[i] = "resolving" /\ rwait[i] > Timeout
        /\ pc[j] = "done" /\ caught[j] = "TimeoutError"

\* ---- C7 -------------------------------------------------------------------
\* C7: a probe whose lookup failed has returned not reachable, without a
\* latency, and no connection was ever attempted for it.
C7_UnresolvableSkipsConnect ==
    \A i \in Tasks :
        caught[i] \in ResolveErrors =>
            /\ pc[i] = "done"
            /\ ~up[i] /\ latency[i] = NoneVal
            /\ attempts[i] = <<>> /\ conn[i] = "none"

C7_Witness ==
    \E i \in Tasks : caught[i] \in ResolveErrors /\ lookups[i] = 1 /\ pc[i] = "done"

\* ---- C8 -------------------------------------------------------------------
\* C8 as stated: a started probe whose host begins with "[" has made no lookup
\* and has attempted exactly one connection, to the interior of the brackets and
\* the descriptor's port.
C8_BracketedAlwaysConnects ==
    \A i \in Tasks :
        (pc[i] # "pending" /\ Host(i)[1] = "[") =>
            /\ lookups[i] = 0
            /\ attempts[i] = << <<Interior(Host(i)), Port(i)>> >>

\* C8 as amended: a started probe whose host is a bracketed literal has made no
\* lookup; when the interior of the brackets is not empty it has attempted
\* exactly one connection, to that interior and the descriptor's port; when the
\* interior is empty it has attempted none and has returned not reachable.
C8_BracketedLiteralVerbatim ==
    \A i \in Tasks :
        (pc[i] # "pending" /\ IsBracketedLiteral(Host(i))) =>
            /\ lookups[i] = 0
            /\ IF Interior(Host(i)) # <<>>
               THEN attempts[i] = << <<Interior(Host(i)), Port(i)>> >>
               ELSE /\ attempts[i] = <<>>
                    /\ pc[i] = "done" /\ ~up[i] /\ latency[i] = NoneVal

C8_Witness ==
    \E i, j \in Tasks :
        /\ Host(i) = HostBracketed /\ attempts[i] = << << <<":", ":", "1">>, "1" >> >>
        /\ Host(j) = HostEmptyBrackets /\ pc[j] = "done"

\* ---- C9 -------------------------------------------------------------------
\* C9: while main gathers, no unfinished probe waits for another probe to
\* finish: either the probe itself can take a step, or the loop is still
\* running the first steps of the tasks and can run the next one.
C9_ProbesRunConcurrently ==
    mainpc = "gather" =>
        \A j \in Tasks :
            pc[j] # "done" =>
                \/ ENABLED TaskStep(j)
                \/ \E k \in Tasks : pc[k] = "pending" /\ ENABLED Start(k)

C9_Witness ==
    /\ Len(peers) >= 2
    /\ \A i \in Tasks : pc[i] \in { "resolving", "connecting" }
    /\ \E i \in Tasks : pc[i] = "resolving" /\ rwait[i] > 0
    /\ \E j \in Tasks : pc[j] = "connecting" /\ elapsed[j] > 0

\* ---- C10 ------------------------------------------------------------------
\* C10: the alive table holds one row for every reachable result, in ascending
\* order of latency, and rows of equal latency are in the order of their
\* descriptors in the list given to main.
C10_AliveSortedStable ==
    mainpc = "printed" =>
        /\ Len(alive) = Cardinality({ i \in Tasks : up[i] })
        /\ { alive[k].src : k \in 1..Len(alive) } = { i \in Tasks : up[i] }
        /\ \A a, b \in 1..Len(alive) :
              a < b =>
                 /\ alive[a].latency[1] <= alive[b].latency[1]
                 /\ alive[a].latency[1] = alive[b].latency[1] => alive[a].src < alive[b].src

C10_Witness ==
    /\ mainpc = "printed"
    /\ Len(alive) >= 2
    /\ alive[1].latency = alive[2].latency
    /\ alive[1].src < alive[2].src
    /\ alive[1].latency[1] = LatencyMs(latency[alive[1].src][1])

\* ---- C11 ------------------------------------------------------------------
\* C11: the latency of a reachable result is never negative.
C11_LatencyNonNegative ==
    \A i \in Tasks :
        (pc[i] = "done" /\ up[i]) => latency[i] # NoneVal /\ latency[i][1] >= 0

\* ---- C12 ------------------------------------------------------------------
DeadRows == IF dead = NoneVal THEN <<>> ELSE dead[1]

RowsOf(table, i) == Cardinality({ k \in 1..Len(table) : table[k].src = i })

InListOrder(table) == \A a, b \in 1..Len(table) : a < b => table[a].src < table[b].src

\* C12 as stated: once the report is printed every result is in exactly one of
\* the two tables, and the dead rows are in the order of the input list.
C12_EveryResultInOneTable ==
    mainpc = "printed" =>
        /\ \A i \in Tasks : RowsOf(alive, i) + RowsOf(DeadRows, i) = 1
        /\ InListOrder(DeadRows)

\* C12 as amended: once the report is printed every reachable result has exactly
\* one row in the alive table and no other result has a row there; when the dead
\* table is printed (SHOW_DEAD), every result that is not reachable has exactly
\* one row in it, no reachable one has, and its rows are in the order of the
\* input list; when it is not printed the results that are not reachable are in
\* no table.
C12_PartitionWhenDeadShown ==
    mainpc = "printed" =>
        /\ \A i \in Tasks : RowsOf(alive, i) = IF up[i] THEN 1 ELSE 0
        /\ dead # NoneVal =>
              /\ \A i \in Tasks : RowsOf(dead[1], i) = IF up[i] THEN 0 ELSE 1
              /\ InListOrder(dead[1])
        /\ dead = NoneVal => \A i \in Tasks : ~up[i] => RowsOf(alive, i) + RowsOf(DeadRows, i) = 0

C12_Witness ==
    /\ mainpc = "printed"
    /\ dead # NoneVal
    /\ Len(alive) >= 1
    /\ \E k \in 1..Len(DeadRows) : DeadRows[k].latency # NoneVal

\* ---- C15 ------------------------------------------------------------------
PcOrder ==
    { <<"pending", "resolving">>, <<"pending", "connecting">>, <<"pending", "done">>,
      <<"resolving", "connecting">>, <<"resolving", "done">>,
      <<"connecting", "closing">>, <<"connecting", "done">>,
      <<"closing", "done">> }

\* C15: a probe makes at most one lookup and at most one connection attempt; a
\* connection to a host that is not a literal is attempted only after its lookup
\* has returned; a latency is recorded only for an established connection; a
\* probe whose connection was established has not returned while the connection
\* is still open; and a probe only moves forward through
\* resolve, connect, close, return.
C15_StepsInOrderOnce ==
    /\ [](\A i \in Tasks :
            /\ lookups[i] <= 1 /\ Len(attempts[i]) <= 1
            /\ (attempts[i] # <<>> /\ Host(i)[1] # "[") => lookups[i] = 1 /\ pc[i] # "resolving"
            /\ pc[i] = "resolving" => lookups[i] = 1 /\ attempts[i] = <<>>
            /\ latency[i] # NoneVal => attempts[i] # <<>> /\ conn[i] \in { "open", "closed" }
            /\ pc[i] = "closing" <=> conn[i] = "open"
            /\ pc[i] = "done" => conn[i] \notin { "open", "inflight" }
            /\ up[i] => pc[i] = "done" /\ conn[i] = "closed")
    /\ [][\A i \in Tasks : pc'[i] # pc[i] => <<pc[i], pc'[i]>> \in PcOrder]_vars

C15_Witness ==
    \E i \in Tasks :
        /\ lookups[i] = 1 /\ Len(attempts[i]) = 1
        /\ pc[i] = "done" /\ conn[i] = "closed" /\ up[i] /\ latency[i] # NoneVal

\* ---- C16 ------------------------------------------------------------------
\* C16: once main has returned every probe has completed and the results are
\* the final fields of the dicts; from then on no field of any dict, no task
\* and no result changes.
C16_JoinBarrier ==
    /\ [](HasReturned =>
            /\ Len(results) = Len(peers)
            /\ \A i \in Tasks :
                  /\ pc[i] = "done"
                  /\ results[i].up = up[i] /\ results[i].latency = latency[i])
    /\ [][HasReturned =>
            /\ up' = up /\ latency' = latency
            /\ pc' = pc /\ results' = results]_vars

C16_Witness ==
    /\ mainpc = "printed"
    /\ Len(peers) >= 2
    /\ Len(alive) >= 1
    /\ \A i \in Tasks : pc[i] = "done" /\ attempts[i] # <<>>

\* ---- C17 ------------------------------------------------------------------
\* C17: a step that changes the up or latency field of a descriptor's dict is a
\* step of the task of that descriptor and of no other task, also when two
\* descriptors are equal.
C17_OnlyOwnerWrites ==
    [][\A i \in Tasks :
          (up'[i] # up[i] \/ latency'[i] # latency[i]) =>
              /\ pc'[i] # pc[i]
              /\ \A j \in Tasks \ {i} : pc'[j] = pc[j]]_vars

C17_Witness ==
    \E i, j \in Tasks :
        /\ i # j /\ peers[i] = peers[j]
        /\ pc[i] = "done" /\ up[i] /\ latency[i] # NoneVal
        /\ pc[j] = "done" /\ ~up[j] /\ latency[j] = NoneVal /\ attempts[j] # <<>>

\* ---- C19 ------------------------------------------------------------------
\* C19: a dict whose up is true has a latency; the sort of the alive rows never
\* raises, and every row printed in the alive table has a latency.
C19_AliveHaveLatency ==
    /\ \A i \in Tasks : up[i] => latency[i] # NoneVal
    /\ mainpc # "crashed"
    /\ mainpc = "printed" => \A k \in 1..Len(alive) : alive[k].latency # NoneVal

C19_Witness ==
    /\ mainpc = "printed"
    /\ Len(alive) >= 1
    /\ \E j \in Tasks : caught[j] \in CloseErrors /\ ~up[j] /\ latency[j] # NoneVal

\* ---- __main__ (lines 172-188) and get_peers (lines 15-39) ----------------
MdSuffix == <<".", "m", "d">>

\* f.endswith(".md")
EndsWithMd(f) == Len(f) >= 3 /\ SubSeq(f, Len(f) - 2, Len(f)) = MdSuffix

\* country + ".md"
CountryFile(country) == country \o MdSuffix

UriEmptyBrackets == <<"tcp", HostEmptyBrackets, "3">>

UriName == <<"tls", HostName, "2">>

UriBracketed == <<"tcp", HostBracketed, "1">>

\* the repository as os.listdir shows it: the entries of DATA_DIR, and for each
\* directory its files with the matches PEER_REGEX finds in them
RepoTree ==
    << [ name |-> ".git", dir |-> TRUE, files |-> <<>> ],
       [ name |-> "LICENSE", dir |-> FALSE, files |-> <<>> ],
       [ name |-> "eu", dir |-> TRUE,
         files |-> << [ name |-> <<"d", "e", ".", "m", "d">>, uris |-> <<UriEmptyBrackets>> ],
                      [ name |-> <<"f", "r", ".", "m", "d">>, uris |-> <<UriName>> ],
                      [ name |-> <<"n", ".", "t", "x", "t">>, uris |-> <<UriBracketed>> ] >> ],
       [ name |-> "other", dir |-> TRUE,
         files |-> << [ name |-> <<"o", ".", "m", "d">>, uris |-> <<UriBracketed>> ] >> ],
       [ name |-> "as", dir |-> TRUE,
         files |-> << [ name |-> <<"d", "e", ".", "m", "d">>, uris |-> <<UriEmptyBrackets>> ] >> ] >>

\* variant: only the directory is looked for
ReadmeCheckDirOnly == dataDir.exists

\* os.path.exists(os.path.join(DATA_DIR, "README.md"))
ReadmeCheck == dataDir.exists /\ dataDir.readme

\* os.path.isdir(os.path.join(DATA_DIR, d))
IsDir(d) == \E k \in 1..Len(RepoTree) : RepoTree[k].name = d /\ RepoTree[k].dir

\* the files of directory region (os.listdir(r_path))
FilesIn(region) ==
    LET k == CHOOSE k \in 1..Len(RepoTree) : RepoTree[k].name = region
    IN  RepoTree[k].files

NotExcluded(e) == e.dir /\ e.name \notin { ".git", "other" }

IsMdFile(f) == EndsWithMd(f.name)

MapNames(es) == [ k \in 1..Len(es) |-> es[k].name ]

\* lines 20-23
SelectedRegions(regions) ==
    IF regions = <<>> THEN MapNames(SelectSeq(RepoTree, NotExcluded)) ELSE regions

\* lines 25-27: countries += [f for f in os.listdir(r_path) if f.endswith(".md")]
RECURSIVE AllCountries(_)
AllCountries(regions) ==
    IF regions = <<>> THEN <<>>
    ELSE MapNames(SelectSeq(FilesIn(Head(regions)), IsMdFile)) \o AllCountries(Tail(regions))

\* lines 24-29
SelectedCountries(regions, countries) ==
    IF countries = <<>> THEN AllCountries(regions)
    ELSE [ k \in 1..Len(countries) |-> CountryFile(countries[k]) ]

\* lines 33-38: the dicts of one file, if it exists
ScanFile(region, country) ==
    IF IsDir(region) /\ \E k \in 1..Len(FilesIn(region)) : FilesIn(region)[k].name = country
    THEN LET f == FilesIn(region)[CHOOSE k \in 1..Len(FilesIn(region)) :
                                      FilesIn(region)[k].name = country]
         IN  [ k \in 1..Len(f.uris) |-> [ uri |-> f.uris[k], region |-> region, country |-> country ] ]
    ELSE <<>>

\* line 32
RECURSIVE ScanRegion(_, _)
ScanRegion(region, countries) ==
    IF countries = <<>> THEN <<>>
    ELSE ScanFile(region, Head(countries)) \o ScanRegion(region, Tail(countries))

\* line 31
RECURSIVE ScanAll(_, _)
ScanAll(regions, countries) ==
    IF regions = <<>> THEN <<>>
    ELSE ScanRegion(Head(regions), countries) \o ScanAll(Tail(regions), countries)

\* what get_peers returns
GetPeersList(regions, countries) ==
    LET rs == SelectedRegions(regions)
    IN  ScanAll(rs, SelectedCountries(rs, countries))

\* the assertion fails, or os.listdir raises on a region that is no directory
GetPeersFails(regions, countries) ==
    \/ ~ReadmeCheck
    \/ /\ countries = <<>>
       /\ \E k \in 1..Len(regions) : ~IsDir(regions[k])

GitOutcomes == { "ok", "failed", "notrunnable" }

\* subprocess.call(["git", ...]): returns the exit status, whatever it is, and
\* raises FileNotFoundError when git cannot be run
GitCall(outcome) ==
    /\ syncResult' = outcome
    /\ mainpc' = IF outcome = "notrunnable" THEN "aborted" ELSE "scan"

\* lines 172-178
Sync(outcome) ==
    /\ mainpc = "sync"
    /\ IF ~dataDir.exists
       THEN /\ GitCall(outcome)
            /\ dataDir' = IF outcome = "ok"
                          THEN [ exists |-> TRUE, git |-> TRUE, readme |-> TRUE ]
                          ELSE dataDir
       ELSE IF updRepo /\ dataDir.git
       THEN /\ GitCall(outcome)
            /\ UNCHANGED dataDir
       ELSE /\ mainpc' = "scan"
            /\ UNCHANGED << syncResult, dataDir >>
    /\ UNCHANGED << updRepo, argRegions, argCountries, peers, pc, up, latency, rwait,
                    timer, elapsed, lookups, attempts, conn, caught, raised, results,
                    alive, dead >>

\* lines 180-188 up to the call of main: get_peers, then the tasks are created
GetPeers ==
    /\ mainpc = "scan"
    /\ IF GetPeersFails(argRegions, argCountries)
       THEN /\ mainpc' = "exited"
            /\ UNCHANGED << argCountries, peers, pc, up, latency, rwait, timer, elapsed,
                            lookups, attempts, conn, caught, raised >>
       ELSE LET ps == GetPeersList(argRegions, argCountries)
                ts == 1..Len(ps)
            IN  /\ mainpc' = "gather"
                /\ peers' = ps
                /\ argCountries' = IF argCountries = <<>>
                                   THEN AllCountries(SelectedRegions(argRegions))
                                   ELSE argCountries
                /\ pc' = [ i \in ts |-> "pending" ]
                /\ up' = [ i \in ts |-> FALSE ]
                /\ latency' = [ i \in ts |-> NoneVal ]
                /\ rwait' = [ i \in ts |-> 0 ]
                /\ timer' = [ i \in ts |-> 0 ]
                /\ elapsed' = [ i \in ts |-> 0 ]
                /\ lookups' = [ i \in ts |-> 0 ]
                /\ attempts' = [ i \in ts |-> <<>> ]
                /\ conn' = [ i \in ts |-> "none" ]
                /\ caught' = [ i \in ts |-> "None" ]
                /\ raised' = [ i \in ts |-> FALSE ]
    /\ UNCHANGED << dataDir, updRepo, argRegions, syncResult, results, alive, dead >>

\* the program from the start of __main__
InitMain ==
    /\ dataDir \in { [ exists |-> FALSE, git |-> FALSE, readme |-> FALSE ],
                     [ exists |-> TRUE, git |-> TRUE, readme |-> TRUE ],
                     [ exists |-> TRUE, git |-> FALSE, readme |-> TRUE ],
                     [ exists |-> TRUE, git |-> TRUE, readme |-> FALSE ],
                     [ exists |-> TRUE, git |-> FALSE, readme |-> FALSE ] }
    /\ updRepo \in BOOLEAN
    /\ argRegions \in { <<>>, <<"eu">> }
    /\ argCountries \in { <<>>, << <<"d", "e">> >> }
    /\ syncResult = "none"
    /\ peers = <<>>
    /\ mainpc = "sync"
    /\ pc = <<>>
    /\ up = <<>>
    /\ latency = <<>>
    /\ rwait = <<>>
    /\ timer = <<>>
    /\ elapsed = <<>>
    /\ lookups = <<>>
    /\ attempts = <<>>
    /\ conn = <<>>
    /\ caught = <<>>
    /\ raised = <<>>
    /\ results = <<>>
    /\ alive = <<>>
    /\ dead = NoneVal

NextMain ==
    \/ \E outcome \in GitOutcomes : Sync(outcome)
    \/ GetPeers
    \/ Next

SpecMain == InitMain /\ [][NextMain]_vars

\* ---- C13 ------------------------------------------------------------------
\* C13: a git command that failed, or that could not be run, has not ended the
\* run: __main__ goes on to get_peers.
C13_SyncFailureNeverAborts ==
    syncResult \in { "failed", "notrunnable" } => mainpc # "aborted"

\* ---- C14 ------------------------------------------------------------------
\* C14: when get_peers has been called on a data directory without README.md,
\* the run has ended there: no peer was extracted, no probe was created or
\* started, main returned nothing and no table was printed.
C14_NoReadmeNoRun ==
    (mainpc \notin { "sync", "scan", "aborted" } /\ ~(dataDir.exists /\ dataDir.readme)) =>
        /\ mainpc = "exited"
        /\ peers = <<>> /\ pc = <<>> /\ attempts = <<>>
        /\ results = <<>> /\ alive = <<>> /\ dead = NoneVal

C14_Witness ==
    /\ mainpc = "exited"
    /\ dataDir.exists /\ ~dataDir.readme
    /\ peers = <<>>

\* ---- C18 ------------------------------------------------------------------
\* C18: the list get_peers returned holds, for every region directory and every
\* file in it, no more dicts of that region and file than the file has matches.
C18_EachFileScannedOnce ==
    mainpc \in { "gather", "returned", "printed" } =>
        \A r \in 1..Len(RepoTree) :
            \A f \in 1..Len(RepoTree[r].files) :
                Cardinality({ k \in 1..Len(peers) :
                                /\ peers[k].region = RepoTree[r].name
                                /\ peers[k].country = RepoTree[r].files[f].name })
                    <= Len(RepoTree[r].files[f].uris)

====
